---- MODULE Spec2Model ----
(***************************************************************************)
(* Model of sample-apps/hello.cpp: main() writes a greeting, the current   *)
(* time as formatted by ctime, the value of GetVersion(), a prompt, then   *)
(* reads one character from std::cin and returns 0.                        *)
(*                                                                         *)
(* The program counter pc names the statement main is about to execute.    *)
(* std::cout is modelled as a stream state (good / bad), a buffer of text  *)
(* not yet written to the device (coutBuf) and the text already written    *)
(* (stdout).  std::cin is modelled as the characters pending in the        *)
(* operating system (stdinPending), whether the writing end is closed      *)
(* (stdinClosed), and the characters fetched into the stream buffer but    *)
(* not extracted (cinBuf).  Text is a sequence of strings: literals are    *)
(* one string each, formatted numbers one string per digit.                *)
(***************************************************************************)
EXTENDS Integers, Sequences, FiniteSets, TLC

\* ----------------------------------------------------------------- bounds
\* How many characters the environment may supply on standard input.
MaxInput == 2
\* How many seconds the host clock may advance during a run.
MaxTicks == 1

\* ------------------------------------------------------------ host inputs
\* Host clock samples (seconds since the epoch): the epoch itself, the last
\* second of 28 Feb 2000 (a tick crosses into the leap day), and
\* Wed Jan 01 12:00:00 2025 UTC.
ClockValues == {0, 951782399, 1735732800}
\* Offsets of local time from UTC, in seconds (UTC and UTC+9).
TzOffsets == {0, 32400}
\* Values GetVersion() may return: 0, Windows XP (5.1 build 2600) and the
\* 6.2 build 9200 reported to unmanifested programs on Windows 8 and later.
VersionValues == {0, 170393861, 602931718}
\* Characters the environment may supply on standard input.
Chars == {"x", "\n"}

VARIABLES
  pc,            \* the statement main executes next
  now,           \* time_t now
  timeStr,       \* char* timeStr: [null |-> BOOLEAN, str |-> text]
  osvi,          \* OSVERSIONINFO osvi: "indeterminate" or "sized"
  coutState,     \* std::cout's state: "good" or "bad" (badbit set)
  coutBuf,       \* text written to std::cout and not yet flushed
  stdout,        \* text that reached standard output
  cinState,      \* std::cin's state: "good" or "eof"
  cinBuf,        \* characters fetched from the OS and not extracted
  ch,            \* what std::cin.get() returned: <<>> before, <<c>>, or <<"EOF">>
  exitCode,      \* the process exit code, meaningful once main has ended
  clock,         \* host: the system clock
  clockFails,    \* host: time() cannot deliver the time and returns -1
  tz,            \* host: offset of local time from UTC
  osVersion,     \* host: what GetVersion() returns
  stdinPending,  \* host: characters waiting on standard input
  stdinClosed,   \* host: the writing end of standard input is closed
  host,          \* host: files, network and environment variables
  supplied,      \* history: every character supplied on standard input
  ticks,         \* history: how often the clock advanced
  clockReads,    \* history: calls of time()
  versionReads,  \* history: calls of GetVersion()
  clockSeen,     \* history: the clock value each time() call saw
  versionSeen    \* history: the value each GetVersion() call returned

vars == <<pc, now, timeStr, osvi, coutState, coutBuf, stdout, cinState, cinBuf,
          ch, exitCode, clock, clockFails, tz, osVersion, stdinPending,
          stdinClosed, host, supplied, ticks, clockReads, versionReads,
          clockSeen, versionSeen>>

progVars == <<now, timeStr, osvi, cinState, cinBuf, ch, exitCode>>
hostVars == <<clock, clockFails, tz, osVersion, stdinPending, stdinClosed,
              host, supplied, ticks>>
histVars == <<clockReads, versionReads, clockSeen, versionSeen>>

\* ------------------------------------------------------------ the literals
Greeting == "Hello from Windows MCP Server (C++)!"
BuiltAt == "Built at: "
WindowsBuild == "Windows Build: "
Prompt == "Press Enter to exit..."
NL == "\n"

\* ------------------------------------------------- formatting (pure code)
DigitChar(d) ==
  CASE d = 0 -> "0" [] d = 1 -> "1" [] d = 2 -> "2" [] d = 3 -> "3"
    [] d = 4 -> "4" [] d = 5 -> "5" [] d = 6 -> "6" [] d = 7 -> "7"
    [] d = 8 -> "8" [] d = 9 -> "9"

\* operator<<(unsigned long): decimal digits, most significant first, no
\* padding; zero is the single digit 0.
RECURSIVE Decimal(_)
Decimal(n) ==
  IF n < 10 THEN <<DigitChar(n)>>
  ELSE Append(Decimal(n \div 10), DigitChar(n % 10))

\* A field of asctime printed with "%02d".
TwoDigits(n) == <<DigitChar((n \div 10) % 10), DigitChar(n % 10)>>

WeekDayName(w) ==
  CASE w = 0 -> "Sun" [] w = 1 -> "Mon" [] w = 2 -> "Tue" [] w = 3 -> "Wed"
    [] w = 4 -> "Thu" [] w = 5 -> "Fri" [] w = 6 -> "Sat"

MonthName(m) ==
  CASE m = 1 -> "Jan" [] m = 2 -> "Feb" [] m = 3 -> "Mar" [] m = 4 -> "Apr"
    [] m = 5 -> "May" [] m = 6 -> "Jun" [] m = 7 -> "Jul" [] m = 8 -> "Aug"
    [] m = 9 -> "Sep" [] m = 10 -> "Oct" [] m = 11 -> "Nov" [] m = 12 -> "Dec"

\* localtime: the broken-down local time of t seconds since the epoch.
LocalTime(t, offset) ==
  LET lt   == t + offset
      days == lt \div 86400
      secs == lt % 86400
      z    == days + 719468
      era  == z \div 146097
      doe  == z - era * 146097
      yoe  == (doe - doe \div 1460 + doe \div 36524 - doe \div 146096) \div 365
      doy  == doe - (365 * yoe + yoe \div 4 - yoe \div 100)
      mp   == (5 * doy + 2) \div 153
      mon  == IF mp < 10 THEN mp + 3 ELSE mp - 9
  IN  [ wday |-> (days + 4) % 7,
        mon  |-> mon,
        mday |-> doy - (153 * mp + 2) \div 5 + 1,
        hour |-> secs \div 3600,
        min  |-> (secs % 3600) \div 60,
        sec  |-> secs % 60,
        year |-> yoe + era * 400 + (IF mon <= 2 THEN 1 ELSE 0) ]

\* asctime: "Www Mmm dd hh:mm:ss yyyy\n".
AscTime(tm) ==
  <<WeekDayName(tm.wday), " ", MonthName(tm.mon), " ">>
    \o TwoDigits(tm.mday) \o <<" ">>
    \o TwoDigits(tm.hour) \o <<":">> \o TwoDigits(tm.min) \o <<":">>
    \o TwoDigits(tm.sec) \o <<" ">> \o Decimal(tm.year) \o <<NL>>

NullPtr == [null |-> TRUE, str |-> <<>>]

\* ctime(&t): a null pointer when t is not a representable time (negative),
\* else the asctime text of the local time.
Ctime(t, offset) ==
  IF t < 0 THEN NullPtr ELSE [null |-> FALSE, str |-> AscTime(LocalTime(t, offset))]

\* time(0): the host clock, or (time_t)-1 when the time is not available.
Time == IF clockFails THEN -1 ELSE clock

\* GetVersion(): the host's packed version number.
GetVersion == osVersion

\* ------------------------------------------------------------ std::cout
\* operator<< on std::cout: the text goes to the buffer; a stream with
\* badbit set takes nothing.
Inserted(buf, text) == IF coutState = "good" THEN buf \o text ELSE buf

\* std::endl after the text: the newline is inserted and the buffer flushed.
WriteLine(text) ==
  IF coutState = "good"
  THEN /\ stdout' = stdout \o coutBuf \o text \o <<NL>>
       /\ coutBuf' = <<>>
  ELSE UNCHANGED <<stdout, coutBuf>>

Running == pc \notin {"Exit", "Aborted"}

\* ------------------------------------------------------------------ Init
Init ==
  /\ pc = "PrintGreeting"
  /\ now = 0
  /\ timeStr = NullPtr
  /\ osvi = "indeterminate"
  /\ coutState = "good"
  /\ coutBuf = <<>>
  /\ stdout = <<>>
  /\ cinState = "good"
  /\ cinBuf = <<>>
  /\ ch = <<>>
  /\ exitCode = 0
  /\ clock \in ClockValues
  /\ clockFails \in BOOLEAN
  /\ tz \in TzOffsets
  /\ osVersion \in VersionValues
  /\ stdinPending = <<>>
  /\ stdinClosed = FALSE
  /\ host = [files |-> {}, network |-> <<>>, environment |-> {}]
  /\ supplied = <<>>
  /\ ticks = 0
  /\ clockReads = 0
  /\ versionReads = 0
  /\ clockSeen = <<>>
  /\ versionSeen = <<>>

\* --------------------------------------------------------------- main()
\* A variant of PrintGreeting whose first line carries the platform version
\* after the greeting text.
PrintGreetingWithVersion ==
  /\ pc = "PrintGreeting"
  /\ WriteLine(<<Greeting, " ">> \o Decimal(GetVersion))
  /\ pc' = "ReadClock"
  /\ UNCHANGED <<coutState, progVars, hostVars, histVars>>

\* std::cout << "Hello from Windows MCP Server (C++)!" << std::endl;
PrintGreeting ==
  /\ pc = "PrintGreeting"
  /\ WriteLine(<<Greeting>>)
  /\ pc' = "ReadClock"
  /\ UNCHANGED <<coutState, progVars, hostVars, histVars>>

\* time_t now = time(0);
ReadClock ==
  /\ pc = "ReadClock"
  /\ now' = Time
  /\ clockReads' = clockReads + 1
  /\ clockSeen' = Append(clockSeen, Time)
  /\ pc' = "FormatTime"
  /\ UNCHANGED <<timeStr, osvi, cinState, cinBuf, ch, exitCode, coutState,
                 coutBuf, stdout, hostVars, versionReads, versionSeen>>

\* A variant of FormatTime that formats a fresh reading of the clock
\* instead of now.
FormatTimeRereadsClock ==
  /\ pc = "FormatTime"
  /\ timeStr' = Ctime(Time, tz)
  /\ clockReads' = clockReads + 1
  /\ clockSeen' = Append(clockSeen, Time)
  /\ pc' = "PrintTime"
  /\ UNCHANGED <<now, osvi, cinState, cinBuf, ch, exitCode, coutState,
                 coutBuf, stdout, hostVars, versionReads, versionSeen>>

\* char* timeStr = ctime(&now);
FormatTime ==
  /\ pc = "FormatTime"
  /\ timeStr' = Ctime(now, tz)
  /\ pc' = "PrintTime"
  /\ UNCHANGED <<now, osvi, cinState, cinBuf, ch, exitCode, coutState,
                 coutBuf, stdout, hostVars, histVars>>

\* std::cout << "Built at: " << timeStr;
\* Inserting a null char* has undefined behaviour.  The builds differ: the
\* inserter takes the length of the string and the process dies of an
\* access violation (text still in the buffer may or may not have reached
\* the device), or the inserter sets badbit and every later insertion into
\* std::cout is dropped.
PrintTime ==
  /\ pc = "PrintTime"
  /\ \/ /\ ~timeStr.null
        /\ coutBuf' = Inserted(coutBuf, <<BuiltAt>> \o timeStr.str)
        /\ pc' = "InitOsvi"
        /\ UNCHANGED <<coutState, stdout, exitCode>>
     \/ /\ timeStr.null
        /\ \E written \in BOOLEAN :
             stdout' = IF written THEN stdout \o coutBuf \o <<BuiltAt>> ELSE stdout
        /\ coutBuf' = <<>>
        /\ exitCode' = -1073741819
        /\ pc' = "Aborted"
        /\ UNCHANGED coutState
     \/ /\ timeStr.null
        /\ coutBuf' = Inserted(coutBuf, <<BuiltAt>>)
        /\ coutState' = "bad"
        /\ pc' = "InitOsvi"
        /\ UNCHANGED <<stdout, exitCode>>
  /\ UNCHANGED <<now, timeStr, osvi, cinState, cinBuf, ch, hostVars, histVars>>

\* OSVERSIONINFO osvi; ZeroMemory(...); osvi.dwOSVersionInfoSize = sizeof(...);
InitOsvi ==
  /\ pc = "InitOsvi"
  /\ osvi' = "sized"
  /\ pc' = "PrintVersion"
  /\ UNCHANGED <<now, timeStr, cinState, cinBuf, ch, exitCode, coutState,
                 coutBuf, stdout, hostVars, histVars>>

\* std::cout << "Windows Build: " << GetVersion() << std::endl;
PrintVersion ==
  /\ pc = "PrintVersion"
  /\ versionReads' = versionReads + 1
  /\ versionSeen' = Append(versionSeen, GetVersion)
  /\ WriteLine(<<WindowsBuild>> \o Decimal(GetVersion))
  /\ pc' = "PrintPrompt"
  /\ UNCHANGED <<coutState, progVars, hostVars, clockReads, clockSeen>>

\* std::cout << "\nPress Enter to exit...";
PrintPrompt ==
  /\ pc = "PrintPrompt"
  /\ coutBuf' = Inserted(coutBuf, <<NL, Prompt>>)
  /\ pc' = "WaitForInput"
  /\ UNCHANGED <<coutState, stdout, progVars, hostVars, histVars>>

\* std::cin.get(), first part: std::cin is tied to std::cout, so the
\* input sentry flushes std::cout before any character is read.
FlushTied ==
  /\ pc = "WaitForInput"
  /\ IF coutState = "good"
     THEN stdout' = stdout \o coutBuf /\ coutBuf' = <<>>
     ELSE UNCHANGED <<stdout, coutBuf>>
  /\ pc' = "Reading"
  /\ UNCHANGED <<coutState, progVars, hostVars, histVars>>

\* A variant of ReadChar that polls: with nothing pending it returns EOF
\* at once, whether or not standard input is closed.
ReadCharNonBlocking ==
  /\ pc = "Reading"
  /\ \/ /\ stdinPending # <<>>
        /\ \E k \in 1..Len(stdinPending) :
             /\ ch' = <<stdinPending[1]>>
             /\ cinBuf' = SubSeq(stdinPending, 2, k)
             /\ stdinPending' = SubSeq(stdinPending, k + 1, Len(stdinPending))
        /\ UNCHANGED cinState
     \/ /\ stdinPending = <<>>
        /\ ch' = <<"EOF">>
        /\ cinState' = "eof"
        /\ UNCHANGED <<cinBuf, stdinPending>>
  /\ pc' = "Return"
  /\ UNCHANGED <<now, timeStr, osvi, exitCode, coutState, coutBuf, stdout,
                 clock, clockFails, tz, osVersion, stdinClosed, host,
                 supplied, ticks, histVars>>

\* A variant of ReadChar that reads a whole line, as std::getline does: it
\* waits for a newline, takes everything up to and including it and
\* returns the newline; at end of input it takes what is left.
ReadCharWholeLine ==
  /\ pc = "Reading"
  /\ \/ /\ \E k \in 1..Len(stdinPending) :
             /\ stdinPending[k] = NL
             /\ \A j \in 1..(k - 1) : stdinPending[j] # NL
             /\ stdinPending' = SubSeq(stdinPending, k + 1, Len(stdinPending))
        /\ ch' = <<NL>>
        /\ UNCHANGED cinState
     \/ /\ stdinClosed
        /\ \A j \in 1..Len(stdinPending) : stdinPending[j] # NL
        /\ stdinPending' = <<>>
        /\ ch' = <<"EOF">>
        /\ cinState' = "eof"
  /\ pc' = "Return"
  /\ UNCHANGED <<now, timeStr, osvi, exitCode, coutState, coutBuf, stdout,
                 cinBuf, clock, clockFails, tz, osVersion, stdinClosed, host,
                 supplied, ticks, histVars>>

\* std::cin.get(), second part: one character is extracted.  The stream
\* buffer fetches what the OS has pending (at least one character, at most
\* all of it) and hands out the first; with nothing pending the read blocks
\* until something arrives or the input is closed, and at end of input
\* get() returns EOF at once.
ReadChar ==
  /\ pc = "Reading"
  /\ \/ /\ stdinPending # <<>>
        /\ \E k \in 1..Len(stdinPending) :
             /\ ch' = <<stdinPending[1]>>
             /\ cinBuf' = SubSeq(stdinPending, 2, k)
             /\ stdinPending' = SubSeq(stdinPending, k + 1, Len(stdinPending))
        /\ UNCHANGED cinState
     \/ /\ stdinPending = <<>>
        /\ stdinClosed
        /\ ch' = <<"EOF">>
        /\ cinState' = "eof"
        /\ UNCHANGED <<cinBuf, stdinPending>>
  /\ pc' = "Return"
  /\ UNCHANGED <<now, timeStr, osvi, exitCode, coutState, coutBuf, stdout,
                 clock, clockFails, tz, osVersion, stdinClosed, host,
                 supplied, ticks, histVars>>

\* A variant of Return that leaves a log file behind as the process exits.
ReturnLeavingLogFile ==
  /\ pc = "Return"
  /\ stdout' = stdout \o coutBuf
  /\ coutBuf' = <<>>
  /\ exitCode' = 0
  /\ host' = [host EXCEPT !.files = @ \cup {"hello.log"}]
  /\ pc' = "Exit"
  /\ UNCHANGED <<now, timeStr, osvi, cinState, cinBuf, ch, coutState,
                 clock, clockFails, tz, osVersion, stdinPending, stdinClosed,
                 supplied, ticks, histVars>>

\* return 0; the C runtime flushes standard output as the process exits.
Return ==
  /\ pc = "Return"
  /\ stdout' = stdout \o coutBuf
  /\ coutBuf' = <<>>
  /\ exitCode' = 0
  /\ pc' = "Exit"
  /\ UNCHANGED <<now, timeStr, osvi, cinState, cinBuf, ch, coutState,
                 hostVars, histVars>>

\* The stream buffer may write its content through at any time (an
\* unbuffered or line-buffered device).
WriteThrough ==
  /\ Running
  /\ coutBuf # <<>>
  /\ stdout' = stdout \o coutBuf
  /\ coutBuf' = <<>>
  /\ UNCHANGED <<pc, coutState, progVars, hostVars, histVars>>

\* ---------------------------------------------------------- environment
\* A character arrives on standard input.
Supply ==
  /\ Running
  /\ ~stdinClosed
  /\ Len(supplied) < MaxInput
  /\ \E c \in Chars :
       /\ stdinPending' = Append(stdinPending, c)
       /\ supplied' = Append(supplied, c)
  /\ UNCHANGED <<pc, coutState, coutBuf, stdout, progVars, clock, clockFails,
                 tz, osVersion, stdinClosed, host, ticks, histVars>>

\* The writing end of standard input is closed (end of a pipe or file).
CloseStdin ==
  /\ Running
  /\ ~stdinClosed
  /\ stdinClosed' = TRUE
  /\ UNCHANGED <<pc, coutState, coutBuf, stdout, progVars, clock, clockFails,
                 tz, osVersion, stdinPending, host, supplied, ticks, histVars>>

\* The system clock advances by a second.
Tick ==
  /\ Running
  /\ ticks < MaxTicks
  /\ clock' = clock + 1
  /\ ticks' = ticks + 1
  /\ UNCHANGED <<pc, coutState, coutBuf, stdout, progVars, clockFails, tz,
                 osVersion, stdinPending, stdinClosed, host, supplied,
                 histVars>>

MainStep ==
  \/ PrintGreeting
  \/ ReadClock
  \/ FormatTime
  \/ PrintTime
  \/ InitOsvi
  \/ PrintVersion
  \/ PrintPrompt
  \/ FlushTied
  \/ ReadChar
  \/ Return
  \/ WriteThrough

Environment ==
  \/ Supply
  \/ CloseStdin
  \/ Tick

Next == MainStep \/ Environment

Spec == Init /\ [][Next]_vars

\* The same program scheduled fairly: a statement that can execute does.
FairSpec == Spec /\ WF_vars(MainStep)

\* ======================================================================
\* Views of the state used by the properties
\* ======================================================================
\* Everything inserted into std::cout so far, written or still buffered.
Out == stdout \o coutBuf
\* main has ended, by return or by abort.
Terminated == pc \in {"Exit", "Aborted"}
\* The positions of a token in a text.
Places(text, tok) == {i \in 1..Len(text) : text[i] = tok}
Digits == {"0", "1", "2", "3", "4", "5", "6", "7", "8", "9"}
\* What std::cin.get() has taken from the OS: the supplied characters that
\* are no longer pending.
Consumed == SubSeq(supplied, 1, Len(supplied) - Len(stdinPending))
\* The text holds the line "Windows Build: <value>" with a non-empty value.
HasVersionLine(text) ==
  \E i \in Places(text, WindowsBuild) :
    \E j \in (i + 2)..Len(text) :
      /\ text[j] = NL
      /\ \A k \in (i + 1)..(j - 1) : text[k] \in Digits
\* The text holds "Built at: " followed by a non-empty value and a newline.
HasTimeLine(text) ==
  \E i \in Places(text, BuiltAt) :
    \E j \in (i + 2)..Len(text) :
      /\ text[j] = NL
      /\ \A k \in (i + 1)..(j - 1) : text[k] # NL
\* The text ends with the empty line and the unterminated prompt.
EndsWithPrompt(text) ==
  /\ Len(text) >= 2
  /\ text[Len(text)] = Prompt
  /\ text[Len(text) - 1] = NL
\* The full output of a run that read clock value t and version v.
FullOutput(t, v) ==
  <<Greeting, NL, BuiltAt>> \o Ctime(t, tz).str
    \o <<WindowsBuild>> \o Decimal(v) \o <<NL, NL, Prompt>>

\* ======================================================================
\* C1. Every run performs all the steps, once each and in this order: the
\* greeting line, the "Built at:" line, the "Windows Build:" line, the
\* prompt, the read of standard input, exit; there is no other way out.
\* (Stated of a finished run: it ended by the return, both lines with
\* their values and the prompt are on standard output once each in that
\* order, and the read has happened.)
\* ======================================================================
C1_AllStepsInOrder ==
  Terminated =>
    /\ pc = "Exit"
    /\ ch # <<>>
    /\ Cardinality(Places(stdout, Greeting)) = 1
    /\ Cardinality(Places(stdout, BuiltAt)) = 1
    /\ Cardinality(Places(stdout, WindowsBuild)) = 1
    /\ Cardinality(Places(stdout, Prompt)) = 1
    /\ \A g \in Places(stdout, Greeting), b \in Places(stdout, BuiltAt),
          w \in Places(stdout, WindowsBuild), p \in Places(stdout, Prompt) :
         g < b /\ b < w /\ w < p
    /\ HasTimeLine(stdout)
    /\ HasVersionLine(stdout)

\* ======================================================================
\* C2. Every termination has exit code 0, whatever the clock value and the
\* version value are: no ended run has a non-zero exit code.
\* ======================================================================
C2_ExitCodeAlwaysZero == Terminated => exitCode = 0

\* ======================================================================
\* C3. The "Windows Build:" line with a non-empty value is on standard
\* output in every run, also when the time conversion failed and the null
\* string was streamed to std::cout.
\* ======================================================================
C3_VersionLineInEveryRun == Terminated => HasVersionLine(stdout)

\* ======================================================================
\* C4. The first line written to standard output is exactly the greeting
\* literal, whatever the system time and the platform version are: standard
\* output is empty until the greeting statement has run, and from then on
\* it starts with the greeting followed by a newline.
\* ======================================================================
C4_FirstLineIsGreeting ==
  /\ pc = "PrintGreeting" => Out = <<>>
  /\ pc # "PrintGreeting" =>
       /\ Len(stdout) >= 2
       /\ stdout[1] = Greeting
       /\ stdout[2] = NL

\* Two finished runs' worth of difference: the clock ticked, the version is
\* the Windows 8 one, the greeting line is the first line.
C4_Witness ==
  /\ pc = "Exit"
  /\ ticks = 1
  /\ osVersion = 602931718
  /\ ~clockFails
  /\ stdout[1] = Greeting

\* ======================================================================
\* C5 as stated: main never reaches Exit before input has arrived on
\* standard input.
\* ======================================================================
C5_ExitOnlyAfterInput == pc = "Exit" => supplied # <<>>

\* C5 as amended: main returns only after std::cin.get() has returned.
\* While main waits in the read with nothing pending and standard input
\* still open it stays there; the read returns when a character is pending
\* or, with EOF, when standard input is closed and empty (then no input
\* has arrived at all).  The prompt is on standard output while main waits
\* (the stream being good), and nothing is inserted into std::cout from the
\* wait on.
C5_BlocksUntilCharOrEof ==
  /\ [](pc \in {"Return", "Exit"} =>
          /\ ch # <<>>
          /\ ch = <<"EOF">> => stdinClosed /\ supplied = <<>>)
  /\ [](pc = "Reading" /\ coutState = "good" =>
          coutBuf = <<>> /\ EndsWithPrompt(stdout))
  /\ [][pc = "Reading" /\ stdinPending = <<>> /\ ~stdinClosed
          => pc' = "Reading"]_vars
  /\ [][(pc \in {"WaitForInput", "Reading", "Return", "Exit"})
          => (Out' = Out)]_vars

\* main blocked in the read: the prompt is out, nothing is pending and
\* standard input is open.
C5_Witness ==
  /\ pc = "Reading"
  /\ stdinPending = <<>>
  /\ ~stdinClosed
  /\ EndsWithPrompt(stdout)

C7_OnlyConsoleChanges ==
  /\ [][host' = host]_vars
  /\ [][MainStep => UNCHANGED <<clock, clockFails, tz, osVersion, stdinClosed,
                                supplied, ticks>>]_vars

\* A finished run that wrote its output and read a character, with the
\* host as it was.
C7_Witness ==
  /\ pc = "Exit"
  /\ EndsWithPrompt(stdout)
  /\ ch = <<NL>>
  /\ host = [files |-> {}, network |-> <<>>, environment |-> {}]

\* ======================================================================
\* C8. Run with standard input equal to a single newline, the program
\* ends with exit code 0 and standard output is exactly the greeting line,
\* the "Built at: <timestamp>" line ending in a newline, the
\* "Windows Build: <value>" line, an empty line and the unterminated
\* prompt.
\* ======================================================================
C8_SingleNewlineScenario ==
  (Terminated /\ supplied = <<NL>> /\ stdinPending = <<>>) =>
    /\ pc = "Exit"
    /\ exitCode = 0
    /\ ~Ctime(clockSeen[1], tz).null
    /\ stdout = FullOutput(clockSeen[1], osVersion)

\* ======================================================================
\* C9. When the clock value cannot be converted to a calendar time, the
\* program does not crash: it writes some text in place of the date on the
\* "Built at:" line, writes the version line and the prompt, waits for
\* input and exits with code 0.
\* ======================================================================
C9_ConversionFailureHandled ==
  (Terminated /\ timeStr.null /\ clockReads = 1) =>
    /\ pc = "Exit"
    /\ exitCode = 0
    /\ ch # <<>>
    /\ HasTimeLine(stdout)
    /\ HasVersionLine(stdout)
    /\ EndsWithPrompt(stdout)

\* ======================================================================
\* C10 as stated: by the time the program exits, every character up to and
\* including the first newline has been consumed, and at end-of-file the
\* program does not exit without an acknowledgment.
\* ======================================================================
C10_WholeLineConsumed ==
  pc = "Exit" =>
    /\ ch # <<"EOF">>
    /\ \E i \in 1..Len(Consumed) : Consumed[i] = NL

\* C10 as amended: the wait step extracts exactly one character.  Nothing
\* is taken from standard input before the read; the read returns the
\* first character supplied, newline or not, and every later character is
\* left unextracted, in the stream buffer or pending; with standard input
\* closed and empty the read returns EOF and the program goes on to exit.
C10_OneCharacterExtracted ==
  /\ pc \notin {"Return", "Exit"} =>
       ch = <<>> /\ cinBuf = <<>> /\ stdinPending = supplied
  /\ pc \in {"Return", "Exit"} =>
       \/ /\ ch = <<"EOF">>
          /\ cinState = "eof"
          /\ supplied = <<>>
          /\ stdinClosed
       \/ /\ supplied # <<>>
          /\ ch = <<supplied[1]>>
          /\ cinState = "good"
          /\ supplied = ch \o cinBuf \o stdinPending

\* The program has exited having read "x" while the newline after it was
\* never taken from standard input.
C10_Witness ==
  /\ pc = "Exit"
  /\ ch = <<"x">>
  /\ stdinPending = <<NL>>

\* ======================================================================
\* Supporting properties
\* ======================================================================
\* Under FairSpec: once a character has been supplied or standard input
\* has been closed, main ends (by return or by the abort in PrintTime).
TerminatesOnceInputSupplied ==
  (supplied # <<>> \/ stdinClosed) ~> Terminated

\* In the runs where time(0) delivers a representable time, the statements
\* of C1, C2, C3 and C8 all hold.
HoldsWithRepresentableTime ==
  ~clockFails =>
    /\ C1_AllStepsInOrder
    /\ C2_ExitCodeAlwaysZero
    /\ C3_VersionLineInEveryRun
    /\ C8_SingleNewlineScenario
====
